---- MODULE Spec2Model ----
(***************************************************************************)
(* A model of main.py: URL parsing (URL.__init__), the retrieval routine   *)
(* URL.request with its connection pool (socket_cache), its response       *)
(* cache (response_cache) and its redirect recursion.                      *)
(*                                                                         *)
(* Python strings are modelled as sequences of one-character strings, so   *)
(* that split, startswith, strip and int are computed as Python computes   *)
(* them.  The value None is the one-element sequence <<"None">>, which no  *)
(* character string equals.                                                *)
(***************************************************************************)
EXTENDS Integers, Sequences, FiniteSets, TLC

None == <<"None">>

\* An attribute that was never assigned (self.port of a file URL).
NoPort == 0 - 1

(***************************************************************************)
(* Python's string operations.                                             *)
(***************************************************************************)

\* s.startswith(p)
startswith(s, p) == Len(s) >= Len(p) /\ SubSeq(s, 1, Len(p)) = p

\* s.find(sep) + 1: the position of the first occurrence of sep, 0 if none
find(s, sep) ==
    LET hits == {i \in 1..(Len(s) - Len(sep) + 1) :
                    SubSeq(s, i, i + Len(sep) - 1) = sep}
    IN  IF hits = {} THEN 0 ELSE CHOOSE i \in hits : \A j \in hits : i <= j

\* sub in s
contains(s, sub) == find(s, sub) # 0

\* s.split(sep, 1): a list of one or two strings
split1(s, sep) ==
    LET i == find(s, sep)
    IN  IF i = 0 THEN <<s>>
        ELSE <<SubSeq(s, 1, i - 1), SubSeq(s, i + Len(sep), Len(s))>>

\* s.split(sep): a list of one or more strings
RECURSIVE split(_, _)
split(s, sep) ==
    LET i == find(s, sep)
    IN  IF i = 0 THEN <<s>>
        ELSE <<SubSeq(s, 1, i - 1)>> \o split(SubSeq(s, i + Len(sep), Len(s)), sep)

\* s.strip(): leading and trailing blanks removed
RECURSIVE strip(_)
strip(s) ==
    IF s = <<>> THEN s
    ELSE IF Head(s) = " " THEN strip(Tail(s))
    ELSE IF s[Len(s)] = " " THEN strip(SubSeq(s, 1, Len(s) - 1))
    ELSE s

Digits == <<"0", "1", "2", "3", "4", "5", "6", "7", "8", "9">>

isdigits(s) == Len(s) > 0 /\ \A i \in 1..Len(s) : \E d \in 1..10 : Digits[d] = s[i]

RECURSIVE natval(_)
natval(s) ==
    IF s = <<>> THEN 0
    ELSE 10 * natval(SubSeq(s, 1, Len(s) - 1))
         + (CHOOSE d \in 1..10 : Digits[d] = s[Len(s)]) - 1

\* int(s): [ok |-> TRUE, val |-> n], or ok |-> FALSE where int raises ValueError
int(s) ==
    LET t == strip(s)
        signed == Len(t) > 0 /\ Head(t) \in {"-", "+"}
        d == IF signed THEN Tail(t) ELSE t
    IN  IF ~isdigits(d) THEN [ok |-> FALSE, val |-> 0]
        ELSE [ok |-> TRUE,
              val |-> IF signed /\ Head(t) = "-" THEN 0 - natval(d) ELSE natval(d)]

(***************************************************************************)
(* String literals of the source.                                          *)
(***************************************************************************)
s_data == <<"d", "a", "t", "a">>
s_file == <<"f", "i", "l", "e">>
s_http == <<"h", "t", "t", "p">>
s_https == <<"h", "t", "t", "p", "s">>
s_view_source == <<"v", "i", "e", "w", "-", "s", "o", "u", "r", "c", "e">>
s_sep == <<":", "/", "/">>
s_text_html == <<"t", "e", "x", "t", "/", "h", "t", "m", "l">>
s_max_age == <<"m", "a", "x", "-", "a", "g", "e">>
s_no_store == <<"n", "o", "-", "s", "t", "o", "r", "e">>

(***************************************************************************)
(* URL.__init__.  The result is [ok, err, obj]: obj is the constructed     *)
(* object when ok, err the exception raised otherwise.                     *)
(***************************************************************************)
NoObj == [url |-> None, metascheme |-> None, scheme |-> None, host |-> None,
          port |-> NoPort, path |-> None]

Built(o) == [ok |-> TRUE, err |-> "", obj |-> o]
Raised(e) == [ok |-> FALSE, err |-> e, obj |-> NoObj]

\* lines 41-47
URL_data(url) ==
    LET parts == split1(url, <<":">>)
    IN  IF Len(parts) # 2 THEN Raised("ValueError")
        ELSE Built([url |-> url, metascheme |-> None, scheme |-> parts[1],
                    host |-> None, port |-> NoPort, path |-> parts[2]])

\* lines 49-66
URL_view_source(url) ==
    LET remaining_url == SubSeq(url, Len(s_view_source) + 2, Len(url))
        parts == split1(remaining_url, s_sep)
    IN  IF Len(parts) # 2 THEN Raised("ValueError")
        ELSE LET scheme == parts[1]
                 rest == parts[2]
                 hp == split1(rest, <<"/">>)
             IN  Built([url |-> url,
                        metascheme |-> s_view_source,
                        scheme |-> scheme,
                        host |-> IF contains(rest, <<"/">>) THEN hp[1] ELSE rest,
                        port |-> IF scheme = s_https THEN 443 ELSE 80,
                        path |-> IF contains(rest, <<"/">>)
                                 THEN <<"/">> \o hp[2] ELSE <<"/">>])

\* lines 68-84
URL_plain(url) ==
    LET parts == split1(url, s_sep)
    IN  IF Len(parts) # 2 THEN Raised("ValueError")
        ELSE LET scheme == parts[1]
                 rest == IF contains(parts[2], <<"/">>)
                         THEN parts[2] ELSE parts[2] \o <<"/">>
                 hp == split1(rest, <<"/">>)
                 dflt == IF scheme = s_http THEN 80
                         ELSE IF scheme = s_https THEN 443 ELSE NoPort
                 h2 == split1(hp[1], <<":">>)
                 explicit == contains(hp[1], <<":">>)
             IN  IF scheme \notin {s_http, s_https, s_file, s_data}
                 THEN Raised("AssertionError")
                 ELSE IF explicit /\ ~int(h2[2]).ok THEN Raised("ValueError")
                 ELSE Built([url |-> url,
                             metascheme |-> None,
                             scheme |-> scheme,
                             host |-> IF explicit THEN h2[1] ELSE hp[1],
                             port |-> IF explicit THEN int(h2[2]).val ELSE dflt,
                             path |-> <<"/">> \o hp[2]])

\* lines 20-84
URL(url) ==
    IF url = None THEN Built([NoObj EXCEPT !.url = url])
    ELSE IF startswith(url, s_data) THEN URL_data(url)
    ELSE IF startswith(url, s_view_source \o <<":">>) THEN URL_view_source(url)
    ELSE URL_plain(url)

(***************************************************************************)
(* Bounds of the model.                                                    *)
(***************************************************************************)
\* the clock runs from 0 to MaxTime seconds
MaxTime == 2
\* requests sent or attempted in one behaviour, all fetches together
MaxExchanges == 6
\* the pieces a page handed to lex is made of
MaxTokens == 3

REDIRECT_LIMIT == 5

(***************************************************************************)
(* The inputs: the URL strings handed to URL(...), and what a server may   *)
(* answer.                                                                 *)
(***************************************************************************)
u_http == <<"h", "t", "t", "p", ":", "/", "/", "h", "/", "a">>
u_https == <<"h", "t", "t", "p", "s", ":", "/", "/", "h", "/", "a">>
u_http_443 == <<"h", "t", "t", "p", ":", "/", "/", "h", ":", "4", "4", "3", "/", "a">>
u_vs == <<"v", "i", "e", "w", "-", "s", "o", "u", "r", "c", "e", ":", "h", "t", "t", "p", ":", "/", "/", "h", "/", "a">>
u_vs_443 == <<"v", "i", "e", "w", "-", "s", "o", "u", "r", "c", "e", ":", "h", "t", "t", "p", ":", "/", "/", "h", ":", "4", "4", "3", "/", "a">>
u_file == <<"f", "i", "l", "e", ":", "/", "/", "/", "t", "/", "x">>
u_data == <<"d", "a", "t", "a", ":", "t", "e", "x", "t", "/", "h", "t", "m", "l", ",", "H", "i">>
u_ftp == <<"f", "t", "p", ":", "/", "/", "h", "/">>
u_vs_ftp == <<"v", "i", "e", "w", "-", "s", "o", "u", "r", "c", "e", ":", "f", "t", "p", ":", "/", "/", "h", "/">>
u_database == <<"d", "a", "t", "a", "b", "a", "s", "e", ":", "x">>
u_datahub == <<"d", "a", "t", "a", "h", "u", "b", ":", "/", "/", "h", "/">>
u_data_commas == <<"d", "a", "t", "a", ":", "t", "e", "x", "t", "/", "h", "t", "m", "l", ",", "a", ",", "b">>
u_data_plain == <<"d", "a", "t", "a", ":", "t", "e", "x", "t", "/", "p", "l", "a", "i", "n", ",", "H", "i">>

l_new == <<"/", "n", "e", "w">>

cc_max_age_1 == <<"m", "a", "x", "-", "a", "g", "e", "=", "1">>
cc_max_age_0 == <<"m", "a", "x", "-", "a", "g", "e", "=", "0">>
cc_no_store == <<"n", "o", "-", "s", "t", "o", "r", "e">>
cc_private == <<"p", "r", "i", "v", "a", "t", "e">>
cc_max_age_private == <<"m", "a", "x", "-", "a", "g", "e", "=", "1", ",", " ", "p", "r", "i", "v", "a", "t", "e">>

b_one == <<"1">>
b_two == <<"2">>
b_moved == <<"m">>

\* A response as the server sends it: status line, the Location and
\* Cache-Control headers (None when absent), the framing of the body
\* ("length": Content-Length, "chunked": Transfer-Encoding: chunked,
\* "close": neither) and the body.  status 0 stands for a peer that closes
\* the connection without answering.
Resp(st, loc, fr, b, cc) ==
    [status |-> st, location |-> loc, framing |-> fr, body |-> b, cc |-> cc]

r_plain == Resp(200, None, "length", b_one, None)
r_max_age_1 == Resp(200, None, "length", b_two, cc_max_age_1)
r_max_age_0 == Resp(200, None, "length", b_one, cc_max_age_0)
r_no_store == Resp(200, None, "length", b_one, cc_no_store)
r_private == Resp(200, None, "length", b_one, cc_private)
r_max_age_private == Resp(404, None, "length", b_one, cc_max_age_private)
r_404 == Resp(404, None, "length", b_one, cc_max_age_1)
r_500 == Resp(500, None, "length", b_one, cc_max_age_1)
r_chunked == Resp(200, None, "chunked", b_one, None)
r_close == Resp(200, None, "close", b_one, None)
r_moved == Resp(301, l_new, "length", <<>>, None)
r_moved_body == Resp(301, l_new, "length", b_moved, None)
r_no_location == Resp(301, None, "length", <<>>, None)
r_dropped == Resp(0, None, "close", <<>>, None)

\* the pages lex is applied to: up to MaxTokens of these pieces
Tokens == {<<"<">>, <<">">>, <<"&", "l", "t", ";">>, <<"&", "g", "t", ";">>,
           <<"&">>, <<"a">>}

RECURSIVE Pages(_)
Pages(n) ==
    IF n = 0 THEN {<<>>}
    ELSE LET shorter == Pages(n - 1)
         IN  shorter \cup {p \o t : p \in shorter, t \in Tokens}

\* the data URLs that carry them
u_pages == {s_data \o <<":">> \o s_text_html \o <<",">> \o p : p \in Pages(MaxTokens)}

\* A behaviour is one of these scenarios: the URLs the caller loads and
\* the responses the servers give in it.  A behaviour of "lex" is one run
\* of the program, which loads one URL.
Scenarios == {"cache", "redirect", "pool", "local", "scheme", "lex"}

Urls(scenario) ==
    CASE scenario = "cache" -> {u_http}
      [] scenario = "redirect" -> {u_http_443}
      [] scenario = "pool" -> {u_http, u_https, u_http_443}
      [] scenario = "local" -> {u_file, u_data, u_vs, u_vs_443}
      [] scenario = "scheme" ->
            {u_ftp, u_vs_ftp, u_database, u_datahub, u_data, u_data_commas,
             u_data_plain}
      [] scenario = "lex" -> u_pages

Responses(scenario) ==
    CASE scenario = "cache" ->
            {r_plain, r_max_age_1, r_max_age_0, r_no_store, r_private,
             r_max_age_private, r_404, r_500}
      [] scenario = "redirect" ->
            {r_plain, r_max_age_1, r_moved, r_moved_body, r_no_location}
      [] scenario = "pool" -> {r_plain, r_close}
      [] scenario = "local" -> {r_plain, r_chunked}
      [] scenario = "scheme" -> {r_plain}
      [] scenario = "lex" -> {}

(***************************************************************************)
(* What a call gives back: a returned string, or a raised exception.       *)
(***************************************************************************)
NoRet == [kind |-> "none", val |-> <<>>, err |-> ""]
Return(v) == [kind |-> "return", val |-> v, err |-> ""]
Raise(e) == [kind |-> "raise", val |-> <<>>, err |-> e]

\* x.decode("utf8", errors="replace") where x is a str: a str has no decode
str_decode(x) == Raise("AttributeError")

\* bytes.decode("utf8", errors="replace") of the body read from the wire
bytes_decode(raw) == raw

(***************************************************************************)
(* The connection pool.  socket_cache maps a key (host, port) to its       *)
(* pooled connection [id, tls, open, unread]: the identity of the socket   *)
(* object (connections are numbered as they are created), whether it was   *)
(* wrapped in TLS, whether the peer still holds it open, and whether bytes *)
(* of an earlier response are still unread in it.  A connection that is no *)
(* longer in socket_cache is referenced by nothing.                        *)
(***************************************************************************)
NoSock == [id |-> 0, tls |-> FALSE, open |-> FALSE, unread |-> FALSE]

\* socket.socket(...); s.connect(key); wrap_socket for https; socket_cache[key] = s
connect(pool, nsocks, key, scheme, connect_ok, how) ==
    IF key[1] = None
    THEN [ok |-> FALSE, err |-> "TypeError", s |-> NoSock, how |-> how, pool |-> pool]
    ELSE IF contains(key[1], <<":">>) \/ ~connect_ok
    THEN [ok |-> FALSE, err |-> "OSError", s |-> NoSock, how |-> how, pool |-> pool]
    ELSE LET s == [id |-> nsocks + 1, tls |-> (scheme = s_https),
                   open |-> TRUE, unread |-> FALSE]
         IN  [ok |-> TRUE, err |-> "", s |-> s, how |-> how,
              pool |-> (key :> s) @@ pool]

\* acquire without its lookup of socket_cache: every request() opens a
\* connection
acquire_always_connects(pool, nsocks, key, scheme, probe_ok, connect_ok) ==
    connect(pool, nsocks, key, scheme, connect_ok, "absent")

\* acquire without the except branch of the probe: the pooled connection
\* is used whatever the probe gave
acquire_ignores_probe(pool, nsocks, key, scheme, probe_ok, connect_ok) ==
    IF key \in DOMAIN pool
    THEN [ok |-> TRUE, err |-> "", s |-> pool[key], how |-> "reused",
          pool |-> pool]
    ELSE connect(pool, nsocks, key, scheme, connect_ok, "absent")

\* lines 172-205: [ok, err, s, how, pool]
acquire(pool, nsocks, key, scheme, probe_ok, connect_ok) ==
    IF key \in DOMAIN pool
    THEN IF probe_ok
         THEN [ok |-> TRUE, err |-> "", s |-> pool[key], how |-> "reused",
               pool |-> pool]
         ELSE connect(pool, nsocks, key, scheme, connect_ok, "probe")
    ELSE connect(pool, nsocks, key, scheme, connect_ok, "absent")

(***************************************************************************)
(* The body on the wire and its decoding.                                  *)
(***************************************************************************)
HexDigits == <<"0", "1", "2", "3", "4", "5", "6", "7", "8", "9",
               "a", "b", "c", "d", "e", "f">>

\* int(s, 16) of a non-empty string of lower-case hex digits
RECURSIVE hexval(_)
hexval(s) ==
    IF s = <<>> THEN 0
    ELSE 16 * hexval(SubSeq(s, 1, Len(s) - 1))
         + (CHOOSE d \in 1..16 : HexDigits[d] = s[Len(s)]) - 1

\* the server's chunked framing of a body: one chunk per character, then
\* the zero-size chunk
RECURSIVE chunked_wire(_)
chunked_wire(body) ==
    IF body = <<>> THEN <<"0", "\r", "\n", "\r", "\n">>
    ELSE <<"1", "\r", "\n", Head(body), "\r", "\n">> \o chunked_wire(Tail(body))

\* response.readline(): [line, rest]
readline(stream) ==
    LET i == find(stream, <<"\n">>)
        n == IF i = 0 THEN Len(stream) ELSE i
    IN  [line |-> SubSeq(stream, 1, n), rest |-> SubSeq(stream, n + 1, Len(stream))]

\* "\r\n" removed from the end of a size line (size_line.strip())
strip_crlf(line) == SelectSeq(line, LAMBDA c : c \notin {"\r", "\n", " "})

\* lines 93-106, the loop of read_chunked on the stream
RECURSIVE read_chunks(_)
read_chunks(stream) ==
    LET l == readline(stream)
        chunk_size == hexval(strip_crlf(l.line))
    IN  IF chunk_size = 0 THEN <<>>
        ELSE SubSeq(l.rest, 1, chunk_size)
             \o read_chunks(readline(SubSeq(l.rest, chunk_size + 1, Len(l.rest))).rest)

\* lines 86-106.  read_chunked is declared with the one parameter
\* "response"; args are the positional arguments a call binds to it.
read_chunked(args) ==
    IF Len(args) # 1 THEN Raise("TypeError")
    ELSE Return(read_chunks(args[1]))

\* lines 108-132 (no response of the model is gzip-encoded).  The call
\* self.read_chunked(response) binds self and response.
read_http_body(self, r) ==
    IF r.framing = "chunked" THEN read_chunked(<<self, chunked_wire(r.body)>>)
    ELSE Return(r.body)

(***************************************************************************)
(* The response cache: url -> [status_code, content, timestamp, max_age].  *)
(***************************************************************************)
\* lines 156-166: the returned string, the raised exception, or NoRet when
\* request() goes on to the network
cache_lookup(cache, url, now) ==
    IF url \notin DOMAIN cache THEN NoRet
    ELSE IF cache[url].max_age = 0 THEN Raise("Exception: max_age is None")
    ELSE IF now - cache[url].timestamp <= cache[url].max_age
    THEN str_decode(cache[url].content)
    ELSE NoRet

\* lines 262-305 without the test of the status at line 269
cache_control_any_status(cache, url, status, content, directives_str, now) ==
    LET keep(ret) == [ret |-> ret, cache |-> cache]
        parts == split(directives_str, <<",">>)
        directives == [i \in 1..Len(parts) |-> strip(parts[i])]
        name(i) == split(directives[i], <<"=">>)[1]
        ages == {i \in 1..Len(parts) : name(i) = s_max_age}
        bad == {i \in ages : \/ Len(split(directives[i], <<"=">>)) < 2
                             \/ ~int(split(directives[i], <<"=">>)[2]).ok}
        first_bad == CHOOSE i \in bad : \A j \in bad : i <= j
        last_age == CHOOSE i \in ages : \A j \in ages : j <= i
    IN  IF directives_str = None \/ directives_str = <<>> THEN keep(Return(content))
        ELSE IF \E i \in 1..Len(parts) : name(i) \notin {s_max_age, s_no_store}
        THEN keep(str_decode(content))
        ELSE IF contains(directives_str, s_no_store) THEN keep(Return(content))
        ELSE IF ages = {} THEN keep(Return(content))
        ELSE IF bad # {}
        THEN keep(Raise(IF Len(split(directives[first_bad], <<"=">>)) < 2
                        THEN "IndexError" ELSE "ValueError"))
        ELSE [ret |-> Return(content),
              cache |-> (url :> [status_code |-> status,
                                 content |-> content,
                                 timestamp |-> now,
                                 max_age |-> int(split(directives[last_age],
                                                       <<"=">>)[2]).val])
                        @@ cache]

\* lines 262-305: [ret, cache]
cache_control(cache, url, status, content, directives_str, now) ==
    LET keep(ret) == [ret |-> ret, cache |-> cache]
        parts == split(directives_str, <<",">>)
        directives == [i \in 1..Len(parts) |-> strip(parts[i])]
        name(i) == split(directives[i], <<"=">>)[1]
        ages == {i \in 1..Len(parts) : name(i) = s_max_age}
        bad == {i \in ages : \/ Len(split(directives[i], <<"=">>)) < 2
                             \/ ~int(split(directives[i], <<"=">>)[2]).ok}
        first_bad == CHOOSE i \in bad : \A j \in bad : i <= j
        last_age == CHOOSE i \in ages : \A j \in ages : j <= i
    IN  IF directives_str = None \/ directives_str = <<>> THEN keep(Return(content))
        ELSE IF status \notin {200, 301, 404} THEN keep(Return(content))
        ELSE IF \E i \in 1..Len(parts) : name(i) \notin {s_max_age, s_no_store}
        THEN keep(str_decode(content))
        ELSE IF contains(directives_str, s_no_store) THEN keep(Return(content))
        ELSE IF ages = {} THEN keep(Return(content))
        ELSE IF bad # {}
        THEN keep(Raise(IF Len(split(directives[first_bad], <<"=">>)) < 2
                        THEN "IndexError" ELSE "ValueError"))
        ELSE [ret |-> Return(content),
              cache |-> (url :> [status_code |-> status,
                                 content |-> content,
                                 timestamp |-> now,
                                 max_age |-> int(split(directives[last_age],
                                                       <<"=">>)[2]).val])
                        @@ cache]

(***************************************************************************)
(* Redirects.                                                              *)
(***************************************************************************)
\* lines 233-248: the URL object to recurse on, or the exception raised
redirect(self, r, redirects_remaining) ==
    IF r.location = None THEN Raised("Exception: Redirect with no location header")
    ELSE IF redirects_remaining = 0 THEN Raised("Exception: Redirect limit reached")
    ELSE URL(IF startswith(r.location, <<"/">>)
             THEN self.scheme \o s_sep \o self.host \o r.location
             ELSE r.location)

(***************************************************************************)
(* The text extractor and Browser.load.                                    *)
(***************************************************************************)
s_lt == <<"&", "l", "t", ";">>
s_gt == <<"&", "g", "t", ";">>

\* lines 312-336: the loop of lex from index i (counted from 1) on
RECURSIVE lex_loop(_, _, _, _)
lex_loop(body, i, in_tag, text) ==
    IF i > Len(body) THEN text
    ELSE LET c == body[i]
             prospective_entity == SubSeq(body, i, IF i + 3 <= Len(body)
                                                   THEN i + 3 ELSE Len(body))
         IN  IF c = "&" /\ ~in_tag /\ prospective_entity = s_lt
             THEN lex_loop(body, i + 4, in_tag, text \o <<"<">>)
             ELSE IF c = "&" /\ ~in_tag /\ prospective_entity = s_gt
             THEN lex_loop(body, i + 4, in_tag, text \o <<">">>)
             ELSE IF c = "<" THEN lex_loop(body, i + 1, TRUE, text)
             ELSE IF c = ">" THEN lex_loop(body, i + 1, FALSE, text)
             ELSE IF ~in_tag THEN lex_loop(body, i + 1, in_tag, text \o <<c>>)
             ELSE lex_loop(body, i + 1, in_tag, text)

\* lines 307-337
lex(body) == lex_loop(body, 1, FALSE, <<>>)

\* lines 363-364
lex_source(body) == body

\* a call name(body) of a module-level name: the module defines lex,
\* lex_source and show_source (which prints and returns None); any other
\* name is unbound
call_global(name, body) ==
    IF name = "lex" THEN Return(lex(body))
    ELSE IF name = "lex_source" THEN Return(lex_source(body))
    ELSE IF name = "show_source" THEN Return(None)
    ELSE Raise("NameError")

\* lines 392-397: the text Browser.load draws, given what url.request() gave
load(url, body) ==
    IF body.kind # "return" THEN body
    ELSE IF url.metascheme # None /\ url.metascheme = s_view_source
    THEN call_global("lex_souce", body.val)
    ELSE call_global("lex", body.val)

(***************************************************************************)
(* The state.                                                              *)
(***************************************************************************)
VARIABLES
    scenario,            \* the scenario of this behaviour
    made,                \* what the caller's URL(...) gave: [ok, err, obj]
    response_cache,      \* the module's response_cache
    socket_cache,        \* the module's socket_cache
    nsocks,              \* the connections created so far
    now,                 \* datetime.now(), in seconds
    pc,                  \* "idle", or "request" while request() runs
    self,                \* the object whose request() runs
    redirects_remaining, \* its argument
    depth,               \* how many request() calls are below it on the stack
    ret,                 \* what the caller's request() gave
    via,                 \* the branch that ended it: file, data, cache, network
    exchanges,           \* requests sent or attempted in all fetches
    sends,               \* requests sent in the current fetch
    last,                \* the last exchange of the current fetch
    opened,              \* the path last handed to open()
    text                 \* the text Browser.load draws, or what it raised

vars == <<scenario, made, response_cache, socket_cache, nsocks, now, pc, self,
          redirects_remaining, depth, ret, via, exchanges, sends, last, opened,
          text>>

\* An exchange: the request() that made it (url, scheme, host, port), the
\* connection it used (s, tls) and how it was got ("reused", or created
\* because the key was "absent" or the "probe" failed), what the probe of
\* the pooled connection gave ("none" without one), the request line's
\* path and the Host header if a request was sent, what the server
\* answered to it, and whether request() parsed that answer's status line
\* and headers.
NoExchange == [url |-> None, scheme |-> None, host |-> None, port |-> NoPort,
               s |-> 0, tls |-> FALSE, how |-> "", probe |-> "none",
               sent |-> FALSE,
               path |-> None, host_header |-> None, answer |-> r_dropped,
               parsed |-> FALSE]

Init ==
    /\ scenario \in Scenarios
    /\ made = Raised("")
    /\ response_cache = <<>>
    /\ socket_cache = <<>>
    /\ nsocks = 0
    /\ now = 0
    /\ pc = "idle"
    /\ self = NoObj
    /\ redirects_remaining = REDIRECT_LIMIT
    /\ depth = 0
    /\ ret = NoRet
    /\ via = ""
    /\ exchanges = 0
    /\ sends = 0
    /\ last = NoExchange
    /\ opened = None
    /\ text = NoRet

(***************************************************************************)
(* The caller: URL(sys.argv[1]) and url.request(REDIRECT_LIMIT).           *)
(***************************************************************************)
\* line 412: URL(u).  What is recorded of the previous object's call is
\* forgotten.
Construct(u) ==
    /\ pc = "idle"
    /\ scenario = "lex" => made = Raised("")
    /\ made' = URL(u)
    /\ ret' = NoRet
    /\ via' = ""
    /\ sends' = 0
    /\ last' = NoExchange
    /\ opened' = None
    /\ text' = NoRet
    /\ self' = NoObj
    /\ depth' = 0
    /\ redirects_remaining' = REDIRECT_LIMIT
    /\ UNCHANGED <<scenario, response_cache, socket_cache, nsocks, now, pc,
                   exchanges>>

\* line 392: url.request(REDIRECT_LIMIT)
Call ==
    /\ pc = "idle"
    /\ made.ok
    /\ pc' = "request"
    /\ self' = made.obj
    /\ redirects_remaining' = REDIRECT_LIMIT
    /\ depth' = 0
    /\ ret' = NoRet
    /\ via' = ""
    /\ sends' = 0
    /\ last' = NoExchange
    /\ opened' = None
    /\ text' = NoRet
    /\ UNCHANGED <<scenario, made, response_cache, socket_cache, nsocks, now,
                   exchanges>>

\* request() assigns to self.path; the caller's object is self at depth 0
Assigned(me) == IF depth = 0 THEN [made EXCEPT !.obj = me] ELSE made

\* request() ends: the value or exception reaches the caller, load, through
\* every "return redirected.request(...)" on the stack, and load goes on
\* to extract the text
Finish(r, branch) ==
    /\ pc' = "idle"
    /\ ret' = r
    /\ via' = branch
    /\ text' = load(made.obj, r)
    /\ UNCHANGED <<self, redirects_remaining, depth>>

(***************************************************************************)
(* request(), one action per branch.                                       *)
(***************************************************************************)
\* lines 143-147
RequestFile ==
    /\ pc = "request"
    /\ self.scheme = s_file
    /\ LET parts == split1(self.path, <<"/">>)
       IN  IF Len(parts) < 2
           THEN /\ Finish(Raise("IndexError"), "file")
                /\ UNCHANGED <<made, opened>>
           ELSE /\ made' = Assigned([self EXCEPT !.path = parts[2]])
                /\ opened' = parts[2]
                /\ \E found \in BOOLEAN :
                      Finish(IF found THEN Return(<<"f">>)
                             ELSE Raise("FileNotFoundError"), "file")
    /\ UNCHANGED <<scenario, response_cache, socket_cache, nsocks, now,
                   exchanges, sends, last>>

\* lines 150-153 without the assert on content_type
request_data_any_type(path) ==
    LET parts == split1(path, <<",">>)
    IN  IF Len(parts) # 2 THEN Raise("ValueError")
        ELSE Return(parts[2])

\* lines 150-153
request_data(path) ==
    LET parts == split1(path, <<",">>)
    IN  IF Len(parts) # 2 THEN Raise("ValueError")
        ELSE IF parts[1] # s_text_html THEN Raise("AssertionError")
        ELSE Return(parts[2])

\* lines 149-153
RequestData ==
    /\ pc = "request"
    /\ self.scheme # s_file
    /\ self.scheme = s_data
    /\ Finish(request_data(self.path), "data")
    /\ UNCHANGED <<scenario, made, response_cache, socket_cache, nsocks, now,
                   exchanges, sends, last, opened>>

\* lines 155-166, when they end the request
RequestCached ==
    /\ pc = "request"
    /\ self.scheme \notin {s_file, s_data}
    /\ cache_lookup(response_cache, self.url, now).kind # "none"
    /\ Finish(cache_lookup(response_cache, self.url, now), "cache")
    /\ UNCHANGED <<scenario, made, response_cache, socket_cache, nsocks, now,
                   exchanges, sends, last, opened>>

\* lines 168-170
view_source_path(me) ==
    IF me.metascheme = s_view_source
    THEN [me EXCEPT !.path = <<"/">> \o (IF me.path = None THEN <<>> ELSE me.path)]
    ELSE me

(***************************************************************************)
(* What the environment decides during one request(): each set holds the   *)
(* outcomes that can differ.                                               *)
(***************************************************************************)
\* s.send(b"") on the pooled connection: it passes on a connection the peer
\* holds open, and may pass or raise OSError on one the peer has closed
ProbeOutcomes(key) ==
    IF key \in DOMAIN socket_cache /\ ~socket_cache[key].open
    THEN BOOLEAN ELSE {TRUE}

\* s.connect(key) and the TLS handshake, when request() gets to them:
\* they may fail, and fail for a host that is None or holds a ':'
ConnectOutcomes(key, probe_ok) ==
    IF key \in DOMAIN socket_cache /\ probe_ok THEN {FALSE}
    ELSE IF key[1] = None \/ contains(key[1], <<":">>) THEN {FALSE}
    ELSE BOOLEAN

\* what the server answers when the request reaches it: a response, or
\* nothing before it closes the connection
Answers(a) ==
    IF a.ok /\ a.s.open THEN Responses(scenario) \cup {r_dropped}
    ELSE {r_dropped}

\* chance: on a connection the peer closed, whether send raises (TRUE) or
\* the request goes out and the status line read is empty (FALSE); for a
\* body that request() does not read, whether its bytes stay in the socket
\* (TRUE) or went into the buffer of the discarded reader (FALSE)
Chances(a, r) ==
    IF a.ok /\ ~a.s.open THEN BOOLEAN
    ELSE IF a.ok /\ ~a.s.unread /\ r.body # <<>>
            /\ ((300 <= r.status /\ r.status <= 399) \/ r.framing = "chunked")
    THEN BOOLEAN
    ELSE {FALSE}

\* lines 168-305, when the cache did not end the request
RequestNetwork ==
    /\ pc = "request"
    /\ exchanges < MaxExchanges
    /\ self.scheme \notin {s_file, s_data}
    /\ cache_lookup(response_cache, self.url, now).kind = "none"
    /\ LET me == view_source_path(self)
           key == <<me.host, me.port>>
       IN  \E probe_ok \in ProbeOutcomes(key) :
           \E connect_ok \in ConnectOutcomes(key, probe_ok) :
           LET a == acquire(socket_cache, nsocks, key, me.scheme, probe_ok, connect_ok)
           IN  \E r \in Answers(a) : \E chance \in Chances(a, r) :
        LET sent == a.ok /\ (a.s.open \/ ~chance)
            parsed == sent /\ a.s.open /\ ~a.s.unread /\ r.status # 0
            is_redirect == 300 <= r.status /\ r.status <= 399
            rd == redirect(me, r, redirects_remaining)
            body == read_http_body(me, r)
            cached == cache_control(response_cache, me.url, r.status,
                                    bytes_decode(body.val), r.cc, now)
            unread == r.body # <<>> /\ chance
            x == [url |-> me.url, scheme |-> me.scheme, host |-> me.host,
                  port |-> me.port, s |-> a.s.id, tls |-> a.s.tls,
                  how |-> a.how,
                  probe |-> IF key \notin DOMAIN socket_cache THEN "none"
                            ELSE IF probe_ok THEN "passed" ELSE "failed",
                  sent |-> sent,
                  path |-> IF sent THEN me.path ELSE None,
                  host_header |-> IF sent THEN me.host ELSE None,
                  answer |-> r, parsed |-> parsed]
        IN  /\ made' = Assigned(me)
            /\ nsocks' = IF a.ok /\ a.how # "reused" THEN nsocks + 1 ELSE nsocks
            /\ exchanges' = exchanges + 1
            /\ sends' = sends + (IF sent THEN 1 ELSE 0)
            /\ last' = x
            /\ IF ~a.ok
               THEN /\ Finish(Raise(a.err), "network")
                    /\ socket_cache' = a.pool
                    /\ UNCHANGED response_cache
               ELSE IF ~a.s.open
               THEN /\ Finish(Raise(IF chance THEN "OSError" ELSE "ValueError"),
                              "network")
                    /\ socket_cache' = a.pool
                    /\ UNCHANGED response_cache
               ELSE IF r.status = 0
               THEN /\ Finish(Raise("ValueError"), "network")
                    /\ socket_cache' = [a.pool EXCEPT ![key].open = FALSE]
                    /\ UNCHANGED response_cache
               ELSE IF a.s.unread
               THEN /\ Finish(Raise("ValueError"), "network")
                    /\ socket_cache' = a.pool
                    /\ UNCHANGED response_cache
               ELSE IF is_redirect
               THEN /\ socket_cache' = [a.pool EXCEPT ![key].unread = unread]
                    /\ UNCHANGED response_cache
                    /\ IF rd.ok
                       THEN /\ self' = rd.obj
                            /\ redirects_remaining' = redirects_remaining - 1
                            /\ depth' = depth + 1
                            /\ UNCHANGED <<pc, ret, via, text>>
                       ELSE Finish(Raise(rd.err), "network")
               ELSE IF body.kind = "raise"
               THEN /\ Finish(body, "network")
                    /\ socket_cache' = [a.pool EXCEPT ![key].unread = unread]
                    /\ UNCHANGED response_cache
               ELSE /\ Finish(cached.ret, "network")
                    /\ socket_cache' = [a.pool EXCEPT
                                           ![key].open = (r.framing # "close")]
                    /\ response_cache' = cached.cache
    /\ UNCHANGED <<scenario, now, opened>>

(***************************************************************************)
(* The environment.                                                        *)
(***************************************************************************)
\* a second passes
Tick ==
    /\ exchanges < MaxExchanges
    /\ now < MaxTime
    /\ now' = now + 1
    /\ UNCHANGED <<scenario, made, response_cache, socket_cache, nsocks, pc, self,
                   redirects_remaining, depth, ret, via, exchanges, sends,
                   last, opened, text>>

\* the peer closes a pooled connection
PeerClose(key) ==
    /\ exchanges < MaxExchanges
    /\ socket_cache[key].open
    /\ socket_cache' = [socket_cache EXCEPT ![key].open = FALSE]
    /\ UNCHANGED <<scenario, made, response_cache, nsocks, now, pc, self,
                   redirects_remaining, depth, ret, via, exchanges, sends,
                   last, opened, text>>

\* the URL strings the caller may hand to URL(...) in this state
Loadable ==
    IF pc # "idle" \/ (scenario = "lex" /\ made # Raised("")) THEN {}
    ELSE Urls(scenario)

Next ==
    \/ \E u \in Loadable : Construct(u)
    \/ Call
    \/ RequestFile
    \/ RequestData
    \/ RequestCached
    \/ RequestNetwork
    \/ Tick
    \/ \E key \in DOMAIN socket_cache : PeerClose(key)

Spec == Init /\ [][Next]_vars

(***************************************************************************)
(* The properties.                                                         *)
(***************************************************************************)
IsRedirect(status) == 300 <= status /\ status <= 399

\* a step of request(): it returns, raises, or calls request() on the
\* redirected URL
RequestStep == pc = "request" /\ (pc' = "idle" \/ depth' = depth + 1)

\* a step of request() that got as far as the connection pool
ExchangeStep == RequestStep /\ exchanges' = exchanges + 1

\* the server answered the request of the exchange with a response
Answered(x) == x.sent /\ x.answer.status # 0

(* C1: a request() on a URL whose cache entry is fresh (now - stored_at <=  *)
(* max_age) returns the cached body with no socket activity (no probe, no   *)
(* connect, no send); once the entry is stale (now - stored_at > max_age)   *)
(* the request() goes to the network.  Stated for max_age >= 1: what        *)
(* becomes of an entry with max_age = 0 is C7's.                            *)
C1_FreshEntryIsReturned ==
    [][(RequestStep /\ depth = 0 /\ self.url \in DOMAIN response_cache
          /\ response_cache[self.url].max_age >= 1) =>
        IF now - response_cache[self.url].timestamp
              <= response_cache[self.url].max_age
        THEN /\ pc' = "idle"
             /\ ret' = Return(response_cache[self.url].content)
             /\ exchanges' = exchanges
             /\ last' = NoExchange
        ELSE /\ exchanges' = exchanges + 1
             /\ last'.how # ""]_vars

(* C2: a connection is created only when socket_cache has no entry for the  *)
(* key or the probe of the pooled entry fails (which it does only on a      *)
(* connection the peer closed); a request to a key whose pooled connection  *)
(* is alive is sent on that same connection object without a connect; no    *)
(* step removes a key from socket_cache, and a pooled connection leaves it  *)
(* only by being replaced under its key after its probe failed.             *)
C2_PoolReusesLiveConnections ==
    [][/\ ExchangeStep =>
            LET key == <<last'.host, last'.port>>
            IN  /\ (key \in DOMAIN socket_cache /\ socket_cache[key].open) =>
                      /\ last'.how = "reused"
                      /\ last'.s = socket_cache[key].id
                      /\ nsocks' = nsocks
                /\ nsocks' # nsocks =>
                      /\ nsocks' = nsocks + 1
                      /\ last'.s = nsocks'
                      /\ socket_cache'[key].id = nsocks'
                      /\ \/ key \notin DOMAIN socket_cache /\ last'.how = "absent"
                         \/ /\ key \in DOMAIN socket_cache
                            /\ ~socket_cache[key].open
                            /\ last'.how = "probe"
       /\ ~ExchangeStep => nsocks' = nsocks
       /\ \A k \in DOMAIN socket_cache :
            /\ k \in DOMAIN socket_cache'
            /\ socket_cache'[k].id # socket_cache[k].id =>
                  /\ ExchangeStep
                  /\ k = <<last'.host, last'.port>>
                  /\ last'.how = "probe"
                  /\ ~socket_cache[k].open]_vars

\* the second of two fetches was sent on the connection the first created
C2_Witness ==
    /\ pc = "idle"
    /\ depth = 0
    /\ exchanges = 2
    /\ nsocks = 1
    /\ last.how = "reused"
    /\ last.sent
    /\ last.parsed
    /\ ret.kind = "return"

C5_TransportMatchesScheme ==
    last.sent => (last.tls <=> last.scheme = s_https)

(* C6: a response framed with Transfer-Encoding: chunked is decoded by      *)
(* request() to the same text as a response that carries the same body      *)
(* with Content-Length: the body itself.                                    *)
C6_ChunkedDecodesLikeContentLength ==
    (/\ pc = "idle"
     /\ via = "network"
     /\ last.parsed
     /\ ~IsRedirect(last.answer.status)
     /\ last.answer.framing \in {"chunked", "length"}
     /\ last.answer.cc = None) =>
        ret = Return(last.answer.body)

(* C7: every entry of response_cache has a max_age that a lookup accepts,   *)
(* and no request() fails with the 'max_age is stored in response cache     *)
(* but is None' error.                                                      *)
C7_NoCacheInvariantViolation ==
    /\ ret.err # "Exception: max_age is None"
    /\ \A url \in DOMAIN response_cache :
          cache_lookup(response_cache, url, now).err # "Exception: max_age is None"

\* the names of the directives of a Cache-Control value
DirectiveNames(cc) ==
    {split(strip(split(cc, <<",">>)[i]), <<"=">>)[1] : i \in 1..Len(split(cc, <<",">>))}

(* C8: when a terminal response with status 200 or 404 has a Cache-Control  *)
(* directive other than max-age and no-store, request() stores no cache     *)
(* entry and returns the decoded body.                                      *)
C8_UnsupportedDirectiveReturnsBody ==
    [][(/\ ExchangeStep
        /\ last'.parsed
        /\ last'.answer.status \in {200, 404}
        /\ last'.answer.cc # None
        /\ DirectiveNames(last'.answer.cc) \ {s_max_age, s_no_store} # {}) =>
            /\ pc' = "idle"
            /\ response_cache' = response_cache
            /\ ret' = Return(last'.answer.body)]_vars

(* C9: for a URL file:///P, parsing gives the path "/P" and request()       *)
(* opens the path "/P".                                                     *)
C9_FileOpensAbsolutePath ==
    (made.ok /\ startswith(made.obj.url, s_file \o s_sep \o <<"/">>)) =>
        LET P == SubSeq(made.obj.url, Len(s_file \o s_sep) + 2, Len(made.obj.url))
        IN  /\ URL(made.obj.url).obj.path = <<"/">> \o P
            /\ (pc = "idle" /\ via = "file") => opened = <<"/">> \o P

(* C10: a request() on view-source:U uses the same (host, port) and sends   *)
(* the same request path and Host header as a request() on U.               *)
C10_ViewSourceRetrievesLikeInner ==
    (last.how # "" /\ startswith(last.url, s_view_source \o <<":">>)) =>
        LET U == URL(SubSeq(last.url, Len(s_view_source) + 2, Len(last.url))).obj
        IN  /\ last.host = U.host
            /\ last.port = U.port
            /\ last.sent => (last.path = U.path /\ last.host_header = U.host)

(* C11: when a URL with metascheme view-source is loaded and its body is    *)
(* retrieved, load does not fail and the text handed to the renderer is     *)
(* that body unchanged.                                                     *)
C11_ViewSourceShowsBodyUnchanged ==
    (/\ pc = "idle"
     /\ made.ok
     /\ made.obj.metascheme = s_view_source
     /\ ret.kind = "return") =>
        text = Return(ret.val)

(* C12: every URL object that construction returns for a URL string has a   *)
(* scheme in {http, https, file, data}; a construction that fails for any   *)
(* other scheme fails with the invalid-scheme assertion.                    *)
C12_SchemeIsValidated ==
    /\ made.ok => made.obj.scheme \in {s_http, s_https, s_file, s_data}
    /\ (~made.ok /\ made.err # "") => made.err = "AssertionError"

(* C13: request() on a URL data:<type>,<payload> returns <payload>, all     *)
(* that follows the first comma, when <type> is text/html, and fails with   *)
(* the content-type assertion for any other <type>; either way it leaves    *)
(* socket_cache and response_cache as they were and opens no connection.    *)
C13_DataReturnsPayload ==
    [][(/\ RequestStep
        /\ startswith(self.url, s_data \o <<":">>)
        /\ contains(self.url, <<",">>)) =>
            LET rest == SubSeq(self.url, Len(s_data) + 2, Len(self.url))
                comma == find(rest, <<",">>)
                type == SubSeq(rest, 1, comma - 1)
                payload == SubSeq(rest, comma + 1, Len(rest))
            IN  /\ pc' = "idle"
                /\ ret' = IF type = s_text_html THEN Return(payload)
                          ELSE Raise("AssertionError")
                /\ UNCHANGED <<socket_cache, response_cache, nsocks, exchanges>>]_vars

\* a data URL whose payload holds a comma gave all of its payload
C13_Witness ==
    /\ pc = "idle"
    /\ via = "data"
    /\ made.obj.url = u_data_commas
    /\ ret = Return(<<"a", ",", "b">>)

\* position i of body is past a '<' that no '>' has closed yet
InTag(body, i) ==
    \E j \in 1..(i - 1) :
        /\ body[j] = "<"
        /\ \A k \in (j + 1)..(i - 1) : body[k] \notin {"<", ">"}

\* an entity &lt; or &gt; starts at position i, outside a tag
EntityAt(body, i) ==
    /\ ~InTag(body, i)
    /\ i + 3 <= Len(body)
    /\ SubSeq(body, i, i + 3) \in {s_lt, s_gt}

\* what position i of body gives to the text: nothing inside a tag (its
\* '<' and its '>' included) or inside an entity that began earlier, the
\* bracket for an entity, else the character; stray is what a '>' met
\* outside a tag gives
Emitted(body, i, stray) ==
    IF body[i] = "<" \/ InTag(body, i) THEN <<>>
    ELSE IF \E j \in 1..(i - 1) : j >= i - 3 /\ EntityAt(body, j) THEN <<>>
    ELSE IF EntityAt(body, i)
    THEN (IF SubSeq(body, i, i + 3) = s_lt THEN <<"<">> ELSE <<">">>)
    ELSE IF body[i] = ">" THEN stray
    ELSE <<body[i]>>

RECURSIVE TextOutsideTags(_, _, _)
TextOutsideTags(body, n, stray) ==
    IF n = 0 THEN <<>>
    ELSE TextOutsideTags(body, n - 1, stray) \o Emitted(body, n, stray)

(* C14: the text load gets from lex is exactly the characters of the body  *)
(* that lie outside '<'...'>' tags, in order, with each &lt; and &gt;      *)
(* outside a tag replaced by its bracket; entities inside a tag are         *)
(* neither decoded nor copied.                                              *)
C14_LexKeepsAllOutsideTags ==
    (pc = "idle" /\ text.kind = "return") =>
        text.val = TextOutsideTags(ret.val, Len(ret.val), <<">">>)

\* but for a '>' met outside a tag, which lex drops, the text is as C14
\* says
C14_LexDropsStrayCloser ==
    (pc = "idle" /\ text.kind = "return") =>
        text.val = TextOutsideTags(ret.val, Len(ret.val), <<>>)

\* a Cache-Control value has a max-age directive with an integer value
HasIntegerMaxAge(cc) ==
    \E i \in 1..Len(split(cc, <<",">>)) :
        LET dir == split(strip(split(cc, <<",">>)[i]), <<"=">>)
        IN  dir[1] = s_max_age /\ Len(dir) >= 2 /\ int(dir[2]).ok

(* C15: response_cache changes only in the step that ends a request() with  *)
(* a parsed terminal response whose status is 200, 301 or 404 and whose     *)
(* Cache-Control header has only max-age and no-store directives, no        *)
(* no-store, and a max-age with an integer value; and then only the entry   *)
(* under the raw URL of that request is written.                            *)
C15_CacheWrittenOnlyByCacheableResponse ==
    [][response_cache' # response_cache =>
        /\ ExchangeStep
        /\ pc' = "idle"
        /\ last'.parsed
        /\ last'.url = self.url
        /\ last'.answer.status \in {200, 301, 404}
        /\ last'.answer.cc # None
        /\ DirectiveNames(last'.answer.cc) \subseteq {s_max_age, s_no_store}
        /\ s_no_store \notin DirectiveNames(last'.answer.cc)
        /\ HasIntegerMaxAge(last'.answer.cc)
        /\ DOMAIN response_cache' = DOMAIN response_cache \cup {last'.url}
        /\ \A url \in DOMAIN response_cache \ {last'.url} :
              response_cache'[url] = response_cache[url]]_vars

\* a 404 answer with max-age was stored
C15_Witness ==
    /\ pc = "idle"
    /\ last.parsed
    /\ last.answer = r_404
    /\ last.url \in DOMAIN response_cache
    /\ response_cache[last.url].status_code = 404

(* C16: no step removes a key from response_cache; a request() that finds   *)
(* a stale entry (now - stored_at > max_age) goes on to the network, and    *)
(* the entry stays as it was unless the response to that request is stored  *)
(* over it.                                                                 *)
C16_StaleEntryIsSkippedNotPurged ==
    [][/\ DOMAIN response_cache \subseteq DOMAIN response_cache'
       /\ (/\ RequestStep
           /\ depth = 0
           /\ self.url \in DOMAIN response_cache
           /\ now - response_cache[self.url].timestamp
                 > response_cache[self.url].max_age) =>
              /\ exchanges' = exchanges + 1
              /\ last'.how # ""
              /\ response_cache'[self.url] # response_cache[self.url] =>
                    /\ last'.parsed
                    /\ response_cache'[self.url].timestamp = now]_vars

(* C17: request() leaves the fields url, metascheme, scheme, host, port and *)
(* path of the object it is called on as they were.                         *)
C17_RequestLeavesUrlUnchanged ==
    [][RequestStep => made'.obj = made.obj]_vars

(* C18: when the probe of the pooled connection fails, request() creates    *)
(* one connection, wrapped in TLS exactly when the scheme is https, puts it *)
(* in socket_cache under the same key and sends the request on it; when     *)
(* the creation fails, the error reaches the caller, nothing is sent and    *)
(* the pool is as it was; the request is never sent on the connection       *)
(* whose probe failed.                                                      *)
C18_FailedProbeReplacesOnce ==
    [][(ExchangeStep /\ last'.probe = "failed") =>
        LET key == <<last'.host, last'.port>>
        IN  /\ key \in DOMAIN socket_cache
            /\ last'.s # socket_cache[key].id
            /\ IF nsocks' # nsocks
               THEN /\ nsocks' = nsocks + 1
                    /\ DOMAIN socket_cache' = DOMAIN socket_cache
                    /\ socket_cache'[key].id = nsocks'
                    /\ socket_cache'[key].tls = (last'.scheme = s_https)
                    /\ last'.s = nsocks'
                    /\ last'.tls = (last'.scheme = s_https)
                    /\ last'.sent
               ELSE /\ pc' = "idle"
                    /\ ret'.kind = "raise"
                    /\ ret'.err \in {"OSError", "TypeError"}
                    /\ ~last'.sent
                    /\ socket_cache' = socket_cache]_vars

\* a request went out on the connection that replaced a dead one, and was
\* answered
C18_Witness ==
    /\ pc = "idle"
    /\ last.probe = "failed"
    /\ last.how = "probe"
    /\ last.sent
    /\ last.parsed
    /\ ret.kind = "return"

(* C19: whenever request() sends a request on a connection it took from     *)
(* socket_cache, no byte of an earlier response is left unread on that      *)
(* connection, and the status line request() parses is the one the server   *)
(* sent in answer to this request.                                          *)
C19_ExchangesAreComplete ==
    [][(ExchangeStep /\ last'.sent /\ last'.how = "reused") =>
        /\ ~socket_cache[<<last'.host, last'.port>>].unread
        /\ Answered(last') => last'.parsed]_vars

(* C20: the request that follows a redirect whose Location begins with '/'  *)
(* goes to the (host, port) of the request that received the redirect.      *)
C20_RelativeRedirectKeepsAuthority ==
    [][(/\ ExchangeStep
        /\ depth >= 1
        /\ startswith(last.answer.location, <<"/">>)) =>
            /\ last'.host = last.host
            /\ last'.port = last.port]_vars
====
